---- MODULE Spec2Model ----
(***************************************************************************)
(* Model of the generic CRUD engine of eco-goinfra (package common):       *)
(* Validate, Get, Exists, Create, Update, Delete and the builder           *)
(* constructors, run by one caller against a backing store that a second   *)
(* writer shares.                                                          *)
(*                                                                         *)
(* A builder holds two pointers, Definition and Object.  The engine stores *)
(* the Definition pointer itself into Object (SetObject(GetDefinition())), *)
(* so the two may be one allocation: objIsDef records that, and every      *)
(* in-place write to the Definition is then a write to the Object too.     *)
(*                                                                         *)
(* Errors are chains: a sequence of layers, outermost first; Unwrap is     *)
(* Tail, the nil error is the empty sequence.                              *)
(***************************************************************************)
EXTENDS Integers, Sequences, FiniteSets, TLC

\* Highest resource version the backing store hands out in a run.
MaxRV == 3

\* How many failed operations in a row on one builder are told apart.
MaxFailures == 1

\* How many resources the collection that List reads holds at most, and how
\* many builders List allocates in one run at most.
MaxItems == 3
MaxHeap == 4

\* How many times an error is wrapped before it is handed to the predicates.
MaxWrap == 3

\* The name and namespace callers pass; "" is the empty string.
ResName == "r"
ResNamespace == "ns"

\* Content of a resource: "" is the zero value of new(O), "a" what the caller
\* writes into its Definition, "w" what the second writer stores.
ZeroData == ""
CallerData == {"a"}
WriterData == "w"

\* The nil pointer of type SO.
NilObj == [isNil |-> TRUE]

\* A resource value: metadata name, namespace, resourceVersion (0 is "") and
\* the rest of its content.
MkObj(name, namespace, data, rv) ==
    [name |-> name, namespace |-> namespace, data |-> data, rv |-> rv]

(***************************************************************************)
(* Errors                                                                  *)
(***************************************************************************)
Layer(kind, tag) == [kind |-> kind, tag |-> tag]

NoErr == << >>

\* errors.New / a sentinel error.
PlainErr(msg) == << Layer("Plain", msg) >>

\* A k8s API status error with the given reason.
StatusErr(reason) == << Layer("Status", reason) >>

\* fmt.Errorf("msg: %w", err)
Errorf(msg, err) == << Layer("Wrap", msg) >> \o err

NewAPIClientNil == << Layer("APIClientNil", "") >>

NewSchemeAttacherFailed(err) == << Layer("SchemeAttacherFailed", "") >> \o err

NewBuilderFieldEmpty(field) == << Layer("BuilderFieldEmpty", field) >>

NewAPICallFailed(verb, err) == << Layer("APICallFailed", verb) >> \o err

NewBuilderNil == << Layer("BuilderNil", "") >>

NewBuilderDefinitionNil == << Layer("BuilderDefinitionNil", "") >>

\* errors.As: the index of the first layer of the chain with the given kind, 0
\* when there is none.
ErrorsAs(err, kind) ==
    LET hits == {i \in 1..Len(err) : err[i].kind = kind}
    IN  IF hits = {} THEN 0 ELSE CHOOSE i \in hits : \A j \in hits : i <= j

\* errors.Is: target is err or one of the errors err wraps.
ErrorsIs(err, target) ==
    /\ target # NoErr
    /\ \E i \in 1..Len(err) : SubSeq(err, i, Len(err)) = target

IsAPIClientNil(err) == ErrorsAs(err, "APIClientNil") > 0

IsSchemeAttacherFailed(err) == ErrorsAs(err, "SchemeAttacherFailed") > 0

\* The predicate looking at the kind only, whatever the field.
IsBuilderNameEmptyAnyField(err) == ErrorsAs(err, "BuilderFieldEmpty") > 0

IsBuilderNameEmpty(err) ==
    LET i == ErrorsAs(err, "BuilderFieldEmpty") IN i > 0 /\ err[i].tag = "name"

IsBuilderNamespaceEmpty(err) ==
    LET i == ErrorsAs(err, "BuilderFieldEmpty") IN i > 0 /\ err[i].tag = "namespace"

IsAPICallFailed(err) == ErrorsAs(err, "APICallFailed") > 0

IsAPICallFailedWithVerb(err, verb) ==
    LET i == ErrorsAs(err, "APICallFailed") IN i > 0 /\ err[i].tag = verb

IsBuilderNil(err) == ErrorsAs(err, "BuilderNil") > 0

IsBuilderDefinitionNil(err) == ErrorsAs(err, "BuilderDefinitionNil") > 0

\* k8serrors.IsNotFound / IsAlreadyExists: the reason of the first API status
\* in the chain.
IsNotFound(err) ==
    LET i == ErrorsAs(err, "Status") IN i > 0 /\ err[i].tag = "NotFound"

IsAlreadyExists(err) ==
    LET i == ErrorsAs(err, "Status") IN i > 0 /\ err[i].tag = "AlreadyExists"

\* The sentinel errors of the test helpers: what a failing transport returns,
\* and the error a builder modifier stores.
errCreateFailure == PlainErr("simulated create failure")
errGetFailure == PlainErr("simulated get failure")
errUpdateFailure == PlainErr("simulated update failure")
errDeleteFailure == PlainErr("simulated delete failure")
errInvalidBuilder == PlainErr("invalid builder error")
errSchemeAttachment == PlainErr("scheme attachment failed")
errListFailure == PlainErr("simulated list failure")

\* The verbs of the calls to the store.
Verbs == {"get", "list", "create", "update", "delete"}

\* The answers of the error predicates about one error.
Classify(err) ==
    [clientNil |-> IsAPIClientNil(err),
     schemeFailed |-> IsSchemeAttacherFailed(err),
     nameEmpty |-> IsBuilderNameEmpty(err),
     namespaceEmpty |-> IsBuilderNamespaceEmpty(err),
     builderNil |-> IsBuilderNil(err),
     definitionNil |-> IsBuilderDefinitionNil(err),
     callFailed |-> IsAPICallFailed(err),
     withVerb |-> [v \in Verbs |-> IsAPICallFailedWithVerb(err, v)]]

\* An error as it is made, before any wrapping: its value, its kind, and its
\* field or verb.  Kind "nil" is no error; "Plain" and "Status" are errors
\* that are none of the package's kinds.
MkCore(err, kind, tag) == [err |-> err, kind |-> kind, tag |-> tag]

\* What a wrapping kind wraps: an error of the transport or of the store.
Causes == {PlainErr("simulated failure"), StatusErr("NotFound")}

Cores ==
    {MkCore(NoErr, "nil", ""),
     MkCore(PlainErr("simulated failure"), "Plain", ""),
     MkCore(StatusErr("NotFound"), "Status", ""),
     MkCore(NewAPIClientNil, "APIClientNil", ""),
     MkCore(NewBuilderNil, "BuilderNil", ""),
     MkCore(NewBuilderDefinitionNil, "BuilderDefinitionNil", ""),
     MkCore(NewBuilderFieldEmpty("name"), "BuilderFieldEmpty", "name"),
     MkCore(NewBuilderFieldEmpty("namespace"), "BuilderFieldEmpty", "namespace")}
    \cup {MkCore(NewSchemeAttacherFailed(c), "SchemeAttacherFailed", "") : c \in Causes}
    \cup {MkCore(NewAPICallFailed(v, c), "APICallFailed", v) : v \in Verbs, c \in Causes}

\* The messages of the fmt.Errorf wrappers.
WrapMessages == {"failed to validate", "failed to force update"}

\* No error is held.
NoProbe == [core |-> MkCore(NoErr, "nil", ""), err |-> NoErr, asked |-> FALSE,
            answers |-> Classify(NoErr)]

(***************************************************************************)
(* State                                                                   *)
(***************************************************************************)
VARIABLES
    builder,     \* the caller's builder (or the nil builder)
    store,       \* the resource the backing store holds under the key, or NilObj
    nextRV,      \* the resource version the store assigns to its next write
    namespaced,  \* whether the resource type O is namespaced
    last,        \* the step just taken, its result and the calls it issued,
                 \* until the caller has taken the result ("none" from then on)
    justCreated, \* whether the caller's previous step was a Create that returned
                 \* nil: "no", or "created" when its create call succeeded, or
                 \* "existed" when the store answered that the resource exists
    failures,    \* history, kept by SpecRuns only: how many operations the
                 \* caller's builder has just gone through, one right after
                 \* the other, that each failed at the store (counted up to
                 \* MaxFailures)
    items,       \* the resources of the type that the store holds, as a list
                 \* call sees them
    heap,        \* how many builders List has allocated so far
    listed,      \* what the pending List returned: its builders, each with
                 \* the address it was allocated at and its kind identity
    probe        \* an error value a caller holds and what the error
                 \* predicates answered about it, if they were asked

listVars == << items, heap, listed >>

vars == << builder, store, nextRV, namespaced, last, justCreated, failures, listVars,
           probe >>

\* A builder value.  isNil: the builder pointer itself is nil.  client is the
\* interface value held in apiClient: "nil", "typednil" (a non-nil interface
\* holding a nil pointer) or "ok".
MkBuilder(definition, object, objIsDef, client, err) ==
    [isNil |-> FALSE, Definition |-> definition, Object |-> object,
     objIsDef |-> objIsDef, client |-> client, err |-> err, base |-> "nil"]

NilBuilder ==
    [isNil |-> TRUE, Definition |-> NilObj, Object |-> NilObj,
     objIsDef |-> FALSE, client |-> "nil", err |-> NoErr, base |-> "nil"]

\* builder.AttachMixins(): every mixin the builder embeds is given the
\* builder itself as its base (SetBase).
AttachMixins(b) == [b EXCEPT !.base = "self"]

\* An in-place write through the Definition pointer: the Object sees it when
\* it is the same allocation.
WriteDefinition(b, d) ==
    [b EXCEPT !.Definition = d, !.Object = IF b.objIsDef THEN d ELSE @]

\* builder.SetObject(o) with o a pointer other than the Definition.
SetObject(b, o) == [b EXCEPT !.Object = o, !.objIsDef = FALSE]

\* builder.SetObject(builder.GetDefinition())
SetObjectToDefinition(b) == [b EXCEPT !.Object = b.Definition, !.objIsDef = TRUE]

\* The key under which the store holds the resource of this model.
StoreNamespace == IF namespaced THEN ResNamespace ELSE ""

\* runtimeclient.ObjectKeyFromObject
ObjectKeyFromObject(o) == << o.namespace, o.name >>

(***************************************************************************)
(* The backing store (runtimeclient.Client), as the engine's calls see it. *)
(* A world is the builder together with the store, the next resource       *)
(* version and the log of the calls issued so far by the running           *)
(* operation.  inj is what the transport does to a call: "none" or "fail"  *)
(* (the call returns a plain error and reaches no store).                  *)
(***************************************************************************)
Inj == {"none", "fail"}

MkWorld(b, st, rv) == [b |-> b, store |-> st, nextRV |-> rv, calls |-> << >>]

\* One entry of the call log: the verb, the key addressed, how the call
\* ended, the resource version the request carried, and the store's resource
\* before and after the call.
Logged(w, verb, key, res, rvSent, after) ==
    [w EXCEPT !.calls = Append(@, [verb |-> verb, key |-> key, res |-> res,
                                   rvSent |-> rvSent, before |-> w.store,
                                   after |-> after]),
              !.store = after]

\* A call that ended without touching the store.
Refused(w, verb, key, res, rvSent) == Logged(w, verb, key, res, rvSent, w.store)

\* The store holds a resource under this key.
Holds(st, key) == st # NilObj /\ ObjectKeyFromObject(st) = key

\* client.Get(ctx, key, object): fills a freshly allocated object.
ClientGet(w, key, inj) ==
    IF inj = "fail"
    THEN [w |-> Refused(w, "get", key, "Failed", 0), err |-> errGetFailure, obj |-> NilObj]
    ELSE IF ~Holds(w.store, key)
    THEN [w |-> Refused(w, "get", key, "NotFound", 0), err |-> StatusErr("NotFound"),
          obj |-> NilObj]
    ELSE [w |-> Refused(w, "get", key, "ok", 0), err |-> NoErr, obj |-> w.store]

\* client.Create(ctx, definition): on success the store assigns the resource
\* version and the response is decoded into the definition, in place.
ClientCreate(w, inj) ==
    LET d == w.b.Definition
        key == ObjectKeyFromObject(d)
    IN  IF inj = "fail"
        THEN [w |-> Refused(w, "create", key, "Failed", d.rv), err |-> errCreateFailure]
        ELSE IF d.rv # 0
        THEN [w |-> Refused(w, "create", key, "BadRequest", d.rv),
              err |-> StatusErr("BadRequest")]
        ELSE IF key # << StoreNamespace, ResName >>
        THEN [w |-> Refused(w, "create", key, "Invalid", d.rv), err |-> StatusErr("Invalid")]
        ELSE IF w.store # NilObj
        THEN [w |-> Refused(w, "create", key, "AlreadyExists", d.rv),
              err |-> StatusErr("AlreadyExists")]
        ELSE LET stored == [d EXCEPT !.rv = w.nextRV]
             IN  [w |-> [Logged(w, "create", key, "ok", d.rv, stored) EXCEPT
                            !.nextRV = @ + 1, !.b = WriteDefinition(w.b, stored)],
                  err |-> NoErr]

\* client.Update(ctx, definition): optimistic concurrency on the resource
\* version the request carries.
ClientUpdate(w, inj) ==
    LET d == w.b.Definition
        key == ObjectKeyFromObject(d)
    IN  IF inj = "fail"
        THEN [w |-> Refused(w, "update", key, "Failed", d.rv), err |-> errUpdateFailure]
        ELSE IF ~Holds(w.store, key)
        THEN [w |-> Refused(w, "update", key, "NotFound", d.rv),
              err |-> StatusErr("NotFound")]
        ELSE IF d.rv # 0 /\ d.rv # w.store.rv
        THEN [w |-> Refused(w, "update", key, "Conflict", d.rv),
              err |-> StatusErr("Conflict")]
        ELSE LET stored == [d EXCEPT !.rv = w.nextRV]
             IN  [w |-> [Logged(w, "update", key, "ok", d.rv, stored) EXCEPT
                            !.nextRV = @ + 1, !.b = WriteDefinition(w.b, stored)],
                  err |-> NoErr]

\* client.Delete(ctx, definition): by name and namespace, no precondition.
ClientDelete(w, inj) ==
    LET d == w.b.Definition
        key == ObjectKeyFromObject(d)
    IN  IF inj = "fail"
        THEN [w |-> Refused(w, "delete", key, "Failed", d.rv), err |-> errDeleteFailure]
        ELSE IF ~Holds(w.store, key)
        THEN [w |-> Refused(w, "delete", key, "NotFound", d.rv),
              err |-> StatusErr("NotFound")]
        ELSE [w |-> Logged(w, "delete", key, "ok", d.rv, NilObj), err |-> NoErr]

\* What the second writer, sharing the store, may do between two calls, given
\* whether the store holds the resource.
WriterActs == {"none", "modify", "delete", "create"}

WriterCan(held, act) ==
    \/ act = "none"
    \/ act \in {"modify", "delete"} /\ held
    \/ act = "create" /\ ~held

\* The second writer's step lands in the store; the log keeps it, with verb
\* "writer", between the engine's calls it fell between.
Interfere(w, act) ==
    LET key == << StoreNamespace, ResName >>
    IN  IF ~WriterCan(w.store # NilObj, act) \/ act = "none" THEN w
        ELSE IF act = "delete"
        THEN Logged(w, "writer", key, act, 0, NilObj)
        ELSE IF act = "modify"
        THEN [Logged(w, "writer", key, act, 0,
                     [w.store EXCEPT !.data = WriterData, !.rv = w.nextRV])
                 EXCEPT !.nextRV = @ + 1]
        ELSE [Logged(w, "writer", key, act, 0,
                     MkObj(ResName, StoreNamespace, WriterData, w.nextRV))
                 EXCEPT !.nextRV = @ + 1]

\* The calls of a log that the engine issued.
EngineCalls(calls) == SelectSeq(calls, LAMBDA c : c.verb # "writer")

(***************************************************************************)
(* The engine                                                              *)
(***************************************************************************)
\* The nil test by comparison with nil alone.
isInterfaceNilByComparison(v) == v = "nil"

\* isInterfaceNil: v == nil || reflect.ValueOf(v).IsNil()
isInterfaceNil(v) == v = "nil" \/ v = "typednil"

\* Validate without its last check: a stored error lets the builder through.
ValidateIgnoringError(b) ==
    IF b.isNil THEN NewBuilderNil
    ELSE IF b.Definition = NilObj THEN NewBuilderDefinitionNil
    ELSE IF isInterfaceNil(b.client) THEN NewAPIClientNil
    ELSE NoErr

\* Validate handing the stored error back as it is.
ValidateBareError(b) ==
    IF b.isNil THEN NewBuilderNil
    ELSE IF b.Definition = NilObj THEN NewBuilderDefinitionNil
    ELSE IF isInterfaceNil(b.client) THEN NewAPIClientNil
    ELSE b.err

\* Validate looking at the client before the Definition.
ValidateClientFirst(b) ==
    IF b.isNil THEN NewBuilderNil
    ELSE IF isInterfaceNil(b.client) THEN NewAPIClientNil
    ELSE IF b.Definition = NilObj THEN NewBuilderDefinitionNil
    ELSE IF b.err # NoErr THEN Errorf("failed to validate", b.err)
    ELSE NoErr

Validate(b) ==
    IF b.isNil THEN NewBuilderNil
    ELSE IF b.Definition = NilObj THEN NewBuilderDefinitionNil
    ELSE IF isInterfaceNil(b.client) THEN NewAPIClientNil
    ELSE IF b.err # NoErr THEN Errorf("failed to validate", b.err)
    ELSE NoErr

\* Get returns the world (the builder untouched, the call logged), the object
\* fetched and the error.
\* Get returning the client's error as it came.
GetUnwrapped(w, inj) ==
    LET verr == Validate(w.b)
    IN  IF verr # NoErr THEN [w |-> w, obj |-> NilObj, err |-> verr]
        ELSE LET r == ClientGet(w, ObjectKeyFromObject(w.b.Definition), inj)
             IN  IF r.err # NoErr
                 THEN [w |-> r.w, obj |-> NilObj, err |-> r.err]
                 ELSE [w |-> r.w, obj |-> r.obj, err |-> NoErr]

\* Get keeping what it fetched in the builder's Object.
GetStoringObject(w, inj) ==
    LET verr == Validate(w.b)
    IN  IF verr # NoErr THEN [w |-> w, obj |-> NilObj, err |-> verr]
        ELSE LET r == ClientGet(w, ObjectKeyFromObject(w.b.Definition), inj)
             IN  IF r.err # NoErr
                 THEN [w |-> r.w, obj |-> NilObj, err |-> NewAPICallFailed("get", r.err)]
                 ELSE [w |-> [r.w EXCEPT !.b = SetObject(@, r.obj)], obj |-> r.obj,
                       err |-> NoErr]

\* Get asking the store a second time when the first get call failed.
GetRetrying(w, inj) ==
    LET verr == Validate(w.b)
    IN  IF verr # NoErr THEN [w |-> w, obj |-> NilObj, err |-> verr]
        ELSE LET key == ObjectKeyFromObject(w.b.Definition)
                 first == ClientGet(w, key, inj)
                 r == IF first.err # NoErr THEN ClientGet(first.w, key, inj) ELSE first
             IN  IF r.err # NoErr
                 THEN [w |-> r.w, obj |-> NilObj, err |-> NewAPICallFailed("get", r.err)]
                 ELSE [w |-> r.w, obj |-> r.obj, err |-> NoErr]

Get(w, inj) ==
    LET verr == Validate(w.b)
    IN  IF verr # NoErr THEN [w |-> w, obj |-> NilObj, err |-> verr]
        ELSE LET r == ClientGet(w, ObjectKeyFromObject(w.b.Definition), inj)
             IN  IF r.err # NoErr
                 THEN [w |-> r.w, obj |-> NilObj, err |-> NewAPICallFailed("get", r.err)]
                 ELSE [w |-> r.w, obj |-> r.obj, err |-> NoErr]

\* Exists answering without keeping what it fetched.
ExistsWithoutObject(w, inj) ==
    IF Validate(w.b) # NoErr THEN [w |-> w, ok |-> FALSE]
    ELSE LET r == Get(w, inj)
         IN  IF r.err # NoErr THEN [w |-> r.w, ok |-> FALSE]
             ELSE [w |-> r.w, ok |-> TRUE]

\* Exists dropping the Object when the fetch fails.
ExistsClearingOnFailure(w, inj) ==
    IF Validate(w.b) # NoErr THEN [w |-> w, ok |-> FALSE]
    ELSE LET r == Get(w, inj)
         IN  IF r.err # NoErr
             THEN [w |-> [r.w EXCEPT !.b = SetObject(@, NilObj)], ok |-> FALSE]
             ELSE [w |-> [r.w EXCEPT !.b = SetObject(@, r.obj)], ok |-> TRUE]

Exists(w, inj) ==
    IF Validate(w.b) # NoErr THEN [w |-> w, ok |-> FALSE]
    ELSE LET r == Get(w, inj)
         IN  IF r.err # NoErr THEN [w |-> r.w, ok |-> FALSE]
             ELSE [w |-> [r.w EXCEPT !.b = SetObject(@, r.obj)], ok |-> TRUE]

\* Delete taking not-found for a failure like any other.
DeleteStrict(w, inj) ==
    LET verr == Validate(w.b)
    IN  IF verr # NoErr THEN [w |-> w, err |-> verr]
        ELSE LET r == ClientDelete(w, inj)
             IN  IF r.err = NoErr
                 THEN [w |-> [r.w EXCEPT !.b = SetObject(@, NilObj)], err |-> NoErr]
                 ELSE [w |-> r.w, err |-> NewAPICallFailed("delete", r.err)]

\* Delete clearing the Object whatever the call returned.
DeleteClearingAlways(w, inj) ==
    LET verr == Validate(w.b)
    IN  IF verr # NoErr THEN [w |-> w, err |-> verr]
        ELSE LET r == ClientDelete(w, inj)
                 cleared == [r.w EXCEPT !.b = SetObject(@, NilObj)]
             IN  IF r.err = NoErr \/ IsNotFound(r.err)
                 THEN [w |-> cleared, err |-> NoErr]
                 ELSE [w |-> cleared, err |-> NewAPICallFailed("delete", r.err)]

\* Delete recording the failure of its delete call in the builder.
DeleteStoringError(w, inj) ==
    LET verr == Validate(w.b)
    IN  IF verr # NoErr THEN [w |-> w, err |-> verr]
        ELSE LET r == ClientDelete(w, inj)
             IN  IF r.err = NoErr \/ IsNotFound(r.err)
                 THEN [w |-> [r.w EXCEPT !.b = SetObject(@, NilObj)], err |-> NoErr]
                 ELSE [w |-> [r.w EXCEPT !.b.err = NewAPICallFailed("delete", r.err)],
                       err |-> NewAPICallFailed("delete", r.err)]

Delete(w, inj) ==
    LET verr == Validate(w.b)
    IN  IF verr # NoErr THEN [w |-> w, err |-> verr]
        ELSE LET r == ClientDelete(w, inj)
             IN  IF r.err = NoErr \/ IsNotFound(r.err)
                 THEN [w |-> [r.w EXCEPT !.b = SetObject(@, NilObj)], err |-> NoErr]
                 ELSE [w |-> r.w, err |-> NewAPICallFailed("delete", r.err)]

\* Create sending a copy of the Definition: the store's answer, with the
\* resource version it assigned, does not reach the Definition.
CreateFromCopy(w, inj) ==
    LET verr == Validate(w.b)
    IN  IF verr # NoErr THEN [w |-> w, err |-> verr]
        ELSE LET cleared == [w EXCEPT
                                !.b = WriteDefinition(@, [@.Definition EXCEPT !.rv = 0])]
                 r == ClientCreate(cleared, inj)
                 kept == [r.w EXCEPT !.b = cleared.b]
             IN  IF r.err = NoErr
                 THEN [w |-> [kept EXCEPT !.b = SetObjectToDefinition(@)], err |-> NoErr]
                 ELSE IF IsAlreadyExists(r.err) THEN [w |-> kept, err |-> NoErr]
                 ELSE [w |-> kept, err |-> NewAPICallFailed("create", r.err)]

\* Create sending the Definition with the resource version it has.
CreateKeepingVersion(w, inj) ==
    LET verr == Validate(w.b)
    IN  IF verr # NoErr THEN [w |-> w, err |-> verr]
        ELSE LET r == ClientCreate(w, inj)
             IN  IF r.err = NoErr
                 THEN [w |-> [r.w EXCEPT !.b = SetObjectToDefinition(@)], err |-> NoErr]
                 ELSE IF IsAlreadyExists(r.err) THEN [w |-> r.w, err |-> NoErr]
                 ELSE [w |-> r.w, err |-> NewAPICallFailed("create", r.err)]

Create(w, inj) ==
    LET verr == Validate(w.b)
    IN  IF verr # NoErr THEN [w |-> w, err |-> verr]
        ELSE LET cleared == [w EXCEPT
                                !.b = WriteDefinition(@, [@.Definition EXCEPT !.rv = 0])]
                 r == ClientCreate(cleared, inj)
             IN  IF r.err = NoErr
                 THEN [w |-> [r.w EXCEPT !.b = SetObjectToDefinition(@)], err |-> NoErr]
                 ELSE IF IsAlreadyExists(r.err) THEN [w |-> r.w, err |-> NoErr]
                 ELSE [w |-> r.w, err |-> NewAPICallFailed("create", r.err)]

\* The start of an Update that goes on to the update call when the fetch
\* failed.
UpdateFetchIgnoringError(w, inj) ==
    LET verr == Validate(w.b)
    IN  IF verr # NoErr THEN [w |-> w, err |-> verr, done |-> TRUE]
        ELSE
        LET g == Get(w, inj)
        IN  IF g.err # NoErr
            THEN [w |-> g.w, err |-> NoErr, done |-> FALSE]
            ELSE [w |-> [g.w EXCEPT
                            !.b = WriteDefinition(@, [@.Definition EXCEPT !.rv = g.obj.rv])],
                  err |-> NoErr, done |-> FALSE]

\* The fetch, the Definition keeping the resource version it had.
UpdateFetchKeepingVersion(w, inj) ==
    LET verr == Validate(w.b)
    IN  IF verr # NoErr THEN [w |-> w, err |-> verr, done |-> TRUE]
        ELSE
        LET g == Get(w, inj)
        IN  IF g.err # NoErr
            THEN [w |-> g.w, done |-> TRUE,
                  err |-> Errorf("failed get latest object for update", g.err)]
            ELSE [w |-> g.w, err |-> NoErr, done |-> FALSE]

\* The fetch, the resource version copied only into a Definition that has none.
UpdateFetchVersionIfUnset(w, inj) ==
    LET verr == Validate(w.b)
    IN  IF verr # NoErr THEN [w |-> w, err |-> verr, done |-> TRUE]
        ELSE
        LET g == Get(w, inj)
        IN  IF g.err # NoErr
            THEN [w |-> g.w, done |-> TRUE,
                  err |-> Errorf("failed get latest object for update", g.err)]
            ELSE IF w.b.Definition.rv # 0
            THEN [w |-> g.w, err |-> NoErr, done |-> FALSE]
            ELSE [w |-> [g.w EXCEPT
                            !.b = WriteDefinition(@, [@.Definition EXCEPT !.rv = g.obj.rv])],
                  err |-> NoErr, done |-> FALSE]

\* Update, call by call.  Each part returns the world it leaves, the error
\* Update returns if it returns there, and whether it does return there.
\*
\* Validation, the fetch of the latest object, and the copy of its resource
\* version into the definition.
UpdateFetch(w, inj) ==
    LET verr == Validate(w.b)
    IN  IF verr # NoErr THEN [w |-> w, err |-> verr, done |-> TRUE]
        ELSE
        LET g == Get(w, inj)
        IN  IF g.err # NoErr
            THEN [w |-> g.w, done |-> TRUE,
                  err |-> Errorf("failed get latest object for update", g.err)]
            ELSE [w |-> [g.w EXCEPT
                            !.b = WriteDefinition(@, [@.Definition EXCEPT !.rv = g.obj.rv])],
                  err |-> NoErr, done |-> FALSE]

\* The update call with the force flag taken as set.
UpdateAttemptForced(w, force, inj) ==
    LET u == ClientUpdate(w, inj)
    IN  IF u.err = NoErr
        THEN [w |-> [u.w EXCEPT !.b = SetObjectToDefinition(@)], err |-> NoErr,
              done |-> TRUE]
        ELSE [w |-> u.w, err |-> NoErr, done |-> FALSE]

\* The update call, the Object left alone when it succeeds.
UpdateAttemptWithoutObject(w, force, inj) ==
    LET u == ClientUpdate(w, inj)
    IN  IF u.err = NoErr
        THEN [w |-> u.w, err |-> NoErr, done |-> TRUE]
        ELSE IF ~force
        THEN [w |-> u.w, err |-> NewAPICallFailed("update", u.err), done |-> TRUE]
        ELSE [w |-> u.w, err |-> NoErr, done |-> FALSE]

\* The update call, and the return without force.
UpdateAttempt(w, force, inj) ==
    LET u == ClientUpdate(w, inj)
    IN  IF u.err = NoErr
        THEN [w |-> [u.w EXCEPT !.b = SetObjectToDefinition(@)], err |-> NoErr,
              done |-> TRUE]
        ELSE IF ~force
        THEN [w |-> u.w, err |-> NewAPICallFailed("update", u.err), done |-> TRUE]
        ELSE [w |-> u.w, err |-> NoErr, done |-> FALSE]

\* The forced path without its delete: straight on to the create.
UpdateForceDeleteSkipped(w, inj) == [w |-> w, err |-> NoErr, done |-> FALSE]

\* The forced path going on to the create whatever the delete returned.
UpdateForceDeleteIgnoringError(w, inj) ==
    LET d == Delete(w, inj)
    IN  [w |-> d.w, err |-> NoErr, done |-> FALSE]

\* The forced path testing the error of the update call after the Delete, and
\* so returning after a Delete that succeeded.
UpdateForceDeleteStaleError(w, inj) ==
    LET d == Delete(w, inj)
    IN  [w |-> d.w, err |-> Errorf("failed to force update", errUpdateFailure),
         done |-> TRUE]

\* With force: delete ...
UpdateForceDelete(w, inj) ==
    LET d == Delete(w, inj)
    IN  IF d.err # NoErr
        THEN [w |-> d.w, err |-> Errorf("failed to force update", d.err), done |-> TRUE]
        ELSE [w |-> d.w, err |-> NoErr, done |-> FALSE]

\* The forced path returning the error of the Create as it came.
UpdateForceCreateUnwrapped(w, inj) ==
    LET c == Create(w, inj)
    IN  [w |-> c.w, err |-> c.err, done |-> TRUE]

\* ... and create again.
UpdateForceCreate(w, inj) ==
    LET c == Create(w, inj)
    IN  IF c.err # NoErr
        THEN [w |-> c.w, err |-> Errorf("failed to force update", c.err), done |-> TRUE]
        ELSE [w |-> c.w, err |-> NoErr, done |-> TRUE]

(***************************************************************************)
(* Constructors                                                            *)
(***************************************************************************)
ClientValues == {"nil", "typednil", "ok"}

\* A cluster-scoped constructor answering a nil client or a failing scheme
\* attacher with a nil builder.
NewClusterScopedBuilderOrNil(apiClient, schemeErr, name) ==
    LET b == AttachMixins(MkBuilder(MkObj(name, "", ZeroData, 0), NilObj, FALSE, apiClient, NoErr))
    IN  IF isInterfaceNil(apiClient) THEN NilBuilder
        ELSE IF schemeErr # NoErr THEN NilBuilder
        ELSE IF name = "" THEN [b EXCEPT !.err = NewBuilderFieldEmpty("name")]
        ELSE b

\* schemeErr is what schemeAttacher(apiClient.Scheme()) returns.
NewClusterScopedBuilder(apiClient, schemeErr, name) ==
    LET b == AttachMixins(MkBuilder(MkObj(name, "", ZeroData, 0), NilObj, FALSE, apiClient, NoErr))
    IN  IF isInterfaceNil(apiClient) THEN [b EXCEPT !.err = NewAPIClientNil]
        ELSE IF schemeErr # NoErr THEN [b EXCEPT !.err = NewSchemeAttacherFailed(schemeErr)]
        ELSE IF name = "" THEN [b EXCEPT !.err = NewBuilderFieldEmpty("name")]
        ELSE b

\* A namespaced constructor checking the namespace before the name.
NewNamespacedBuilderNamespaceFirst(apiClient, schemeErr, name, nsname) ==
    LET b == AttachMixins(MkBuilder(MkObj(name, nsname, ZeroData, 0), NilObj, FALSE, apiClient, NoErr))
    IN  IF isInterfaceNil(apiClient) THEN [b EXCEPT !.err = NewAPIClientNil]
        ELSE IF schemeErr # NoErr THEN [b EXCEPT !.err = NewSchemeAttacherFailed(schemeErr)]
        ELSE IF nsname = "" THEN [b EXCEPT !.err = NewBuilderFieldEmpty("namespace")]
        ELSE IF name = "" THEN [b EXCEPT !.err = NewBuilderFieldEmpty("name")]
        ELSE b

\* A namespaced constructor that allocates the Definition only once every
\* check has passed.
NewNamespacedBuilderLateDefinition(apiClient, schemeErr, name, nsname) ==
    LET b == AttachMixins(MkBuilder(NilObj, NilObj, FALSE, apiClient, NoErr))
    IN  IF isInterfaceNil(apiClient) THEN [b EXCEPT !.err = NewAPIClientNil]
        ELSE IF schemeErr # NoErr THEN [b EXCEPT !.err = NewSchemeAttacherFailed(schemeErr)]
        ELSE IF name = "" THEN [b EXCEPT !.err = NewBuilderFieldEmpty("name")]
        ELSE IF nsname = "" THEN [b EXCEPT !.err = NewBuilderFieldEmpty("namespace")]
        ELSE [b EXCEPT !.Definition = MkObj(name, nsname, ZeroData, 0)]

NewNamespacedBuilder(apiClient, schemeErr, name, nsname) ==
    LET b == AttachMixins(MkBuilder(MkObj(name, nsname, ZeroData, 0), NilObj, FALSE, apiClient, NoErr))
    IN  IF isInterfaceNil(apiClient) THEN [b EXCEPT !.err = NewAPIClientNil]
        ELSE IF schemeErr # NoErr THEN [b EXCEPT !.err = NewSchemeAttacherFailed(schemeErr)]
        ELSE IF name = "" THEN [b EXCEPT !.err = NewBuilderFieldEmpty("name")]
        ELSE IF nsname = "" THEN [b EXCEPT !.err = NewBuilderFieldEmpty("namespace")]
        ELSE b

\* A cluster-scoped Pull handing out its builder along with the error of a
\* failed fetch.
PullClusterScopedBuilderKeepingBuilder(w, apiClient, schemeErr, name, inj) ==
    LET b == AttachMixins(MkBuilder(MkObj(name, "", ZeroData, 0), NilObj, FALSE, apiClient, NoErr))
        failed(e) == [w |-> [w EXCEPT !.b = NilBuilder], err |-> e]
    IN  IF isInterfaceNil(apiClient) THEN failed(NewAPIClientNil)
        ELSE IF schemeErr # NoErr THEN failed(NewSchemeAttacherFailed(schemeErr))
        ELSE IF name = "" THEN failed(NewBuilderFieldEmpty("name"))
        ELSE LET g == Get([w EXCEPT !.b = b], inj)
             IN  IF g.err # NoErr
                 THEN [w |-> g.w, err |-> Errorf("failed to pull builder", g.err)]
                 ELSE [w |-> [g.w EXCEPT !.b = [b EXCEPT !.Definition = g.obj,
                                                       !.Object = g.obj,
                                                       !.objIsDef = TRUE]],
                       err |-> NoErr]

\* Pull returns the world with the builder pulled (the nil builder on failure)
\* and the error.  w.b is ignored: Pull allocates its own builder.
PullClusterScopedBuilder(w, apiClient, schemeErr, name, inj) ==
    LET b == AttachMixins(MkBuilder(MkObj(name, "", ZeroData, 0), NilObj, FALSE, apiClient, NoErr))
        failed(e) == [w |-> [w EXCEPT !.b = NilBuilder], err |-> e]
    IN  IF isInterfaceNil(apiClient) THEN failed(NewAPIClientNil)
        ELSE IF schemeErr # NoErr THEN failed(NewSchemeAttacherFailed(schemeErr))
        ELSE IF name = "" THEN failed(NewBuilderFieldEmpty("name"))
        ELSE LET g == Get([w EXCEPT !.b = b], inj)
             IN  IF g.err # NoErr
                 THEN [w |-> [g.w EXCEPT !.b = NilBuilder],
                       err |-> Errorf("failed to pull builder", g.err)]
                 ELSE [w |-> [g.w EXCEPT !.b = [b EXCEPT !.Definition = g.obj,
                                                       !.Object = g.obj,
                                                       !.objIsDef = TRUE]],
                       err |-> NoErr]

\* A namespaced Pull storing what it fetched as Object only.
PullNamespacedBuilderObjectOnly(w, apiClient, schemeErr, name, nsname, inj) ==
    LET b == AttachMixins(MkBuilder(MkObj(name, nsname, ZeroData, 0), NilObj, FALSE, apiClient, NoErr))
        failed(e) == [w |-> [w EXCEPT !.b = NilBuilder], err |-> e]
    IN  IF isInterfaceNil(apiClient) THEN failed(NewAPIClientNil)
        ELSE IF schemeErr # NoErr THEN failed(NewSchemeAttacherFailed(schemeErr))
        ELSE IF name = "" THEN failed(NewBuilderFieldEmpty("name"))
        ELSE IF nsname = "" THEN failed(NewBuilderFieldEmpty("namespace"))
        ELSE LET g == Get([w EXCEPT !.b = b], inj)
             IN  IF g.err # NoErr
                 THEN [w |-> [g.w EXCEPT !.b = NilBuilder],
                       err |-> Errorf("failed to pull builder", g.err)]
                 ELSE [w |-> [g.w EXCEPT !.b = SetObject(b, g.obj)], err |-> NoErr]

PullNamespacedBuilder(w, apiClient, schemeErr, name, nsname, inj) ==
    LET b == AttachMixins(MkBuilder(MkObj(name, nsname, ZeroData, 0), NilObj, FALSE, apiClient, NoErr))
        failed(e) == [w |-> [w EXCEPT !.b = NilBuilder], err |-> e]
    IN  IF isInterfaceNil(apiClient) THEN failed(NewAPIClientNil)
        ELSE IF schemeErr # NoErr THEN failed(NewSchemeAttacherFailed(schemeErr))
        ELSE IF name = "" THEN failed(NewBuilderFieldEmpty("name"))
        ELSE IF nsname = "" THEN failed(NewBuilderFieldEmpty("namespace"))
        ELSE LET g == Get([w EXCEPT !.b = b], inj)
             IN  IF g.err # NoErr
                 THEN [w |-> [g.w EXCEPT !.b = NilBuilder],
                       err |-> Errorf("failed to pull builder", g.err)]
                 ELSE [w |-> [g.w EXCEPT !.b = [b EXCEPT !.Definition = g.obj,
                                                       !.Object = g.obj,
                                                       !.objIsDef = TRUE]],
                       err |-> NoErr]

(***************************************************************************)
(* Steps                                                                   *)
(***************************************************************************)
\* The inputs callers pass to the constructors: a client (nil, typed nil or
\* good), a scheme attacher (failing or not), a name and a namespace (empty or
\* not), in every combination.
MkInputs(apiClient, schemeErr, name, nsname) ==
    [apiClient |-> apiClient, schemeErr |-> schemeErr, name |-> name, nsname |-> nsname]

CtorInputs ==
    { MkInputs(c, e, n, ns) :
        c \in ClientValues, e \in {NoErr, errSchemeAttachment},
        n \in {"", ResName}, ns \in {"", ResNamespace} }

\* The inputs of a step that calls no constructor.
NoInputs == MkInputs("nil", NoErr, "", "")

\* The constructor of the resource type's scope, applied to the inputs; a
\* cluster-scoped constructor takes no namespace.
NewBuilder(in) ==
    IF namespaced
    THEN NewNamespacedBuilder(in.apiClient, in.schemeErr, in.name, in.nsname)
    ELSE NewClusterScopedBuilder(in.apiClient, in.schemeErr, in.name)

PullBuilder(w, in, inj) ==
    IF namespaced
    THEN PullNamespacedBuilder(w, in.apiClient, in.schemeErr, in.name, in.nsname, inj)
    ELSE PullClusterScopedBuilder(w, in.apiClient, in.schemeErr, in.name, inj)

\* The record of a step: the operation, its force flag, the error, object and
\* boolean it returned, the calls it issued, and the builder and the store as
\* they were before it; via names the mixin whose method was called, if one
\* was, and ret is the builder reference that method returned.
MkLast(op, force, err, obj, ok, calls) ==
    [op |-> op, force |-> force, err |-> err, obj |-> obj, ok |-> ok,
     calls |-> calls, pre |-> builder, preStore |-> store, afterCreate |-> justCreated,
     afterFailures |-> failures, in |-> NoInputs, preRV |-> nextRV, via |-> "",
     ret |-> "nil"]

\* The record of a step of the caller or of the second writer that is no
\* engine operation: nothing of the state before it is kept.
MkOther(op) ==
    [op |-> op, force |-> FALSE, err |-> NoErr, obj |-> NilObj, ok |-> FALSE,
     calls |-> << >>, pre |-> NilBuilder, preStore |-> NilObj, afterCreate |-> "no",
     afterFailures |-> 0, in |-> NoInputs, preRV |-> 0, via |-> "", ret |-> "nil"]

\* No result is pending: the caller is free to take its next step.
Idle == last.op = "none"

World == MkWorld(builder, store, nextRV)

\* The step, taken by a caller with no result pending, leaves the world w
\* behind.
Leaves(w) ==
    /\ Idle
    /\ w.nextRV <= MaxRV + 1
    /\ builder' = w.b
    /\ store' = w.store
    /\ nextRV' = w.nextRV
    /\ UNCHANGED << namespaced, listVars, probe >>

Init ==
    /\ namespaced \in BOOLEAN
    /\ store = NilObj
    /\ nextRV = 1
    /\ \E in \in CtorInputs :
         /\ builder = NewBuilder(in)
         /\ last = [MkOther("New") EXCEPT !.in = in]
    /\ justCreated = "no"
    /\ failures = 0
    /\ items = << >>
    /\ heap = 0
    /\ listed = << >>
    /\ probe = NoProbe

NewBuilderStep ==
    \E in \in CtorInputs :
        /\ Leaves([World EXCEPT !.b = NewBuilder(in)])
        /\ last' = [MkOther("New") EXCEPT !.in = in]
        /\ justCreated' = "no"

PullBuilderStep ==
    \E in \in CtorInputs, inj \in Inj :
        LET r == PullBuilder(World, in, inj)
        IN  /\ Leaves(r.w)
            /\ last' = [MkOther("Pull") EXCEPT !.err = r.err, !.calls = r.w.calls,
                                              !.in = in, !.preStore = store]
            /\ justCreated' = "no"

\* The caller edits its Definition in place (GetDefinition().Set...).
MutateDefinitionStep ==
    /\ ~builder.isNil
    /\ builder.Definition # NilObj
    /\ \E d \in CallerData :
         /\ builder.Definition.data # d
         /\ Leaves([World EXCEPT !.b = WriteDefinition(@, [@.Definition EXCEPT !.data = d])])
    /\ last' = MkOther("Mutate")
    /\ justCreated' = "no"

\* builder.SetDefinition(nil)
SetDefinitionNilStep ==
    /\ ~builder.isNil
    /\ builder.Definition # NilObj
    /\ Leaves([World EXCEPT !.b = [@ EXCEPT !.Definition = NilObj, !.objIsDef = FALSE]])
    /\ last' = MkOther("SetDefinition")
    /\ justCreated' = "no"

\* builder.SetClient(nil)
SetClientNilStep ==
    /\ ~builder.isNil
    /\ builder.client # "nil"
    /\ Leaves([World EXCEPT !.b = [@ EXCEPT !.client = "nil"]])
    /\ last' = MkOther("SetClient")
    /\ justCreated' = "no"

\* A builder modifier stores an error: builder.SetError(err)
SetErrorStep ==
    /\ ~builder.isNil
    /\ builder.err = NoErr
    /\ Leaves([World EXCEPT !.b = [@ EXCEPT !.err = errInvalidBuilder]])
    /\ last' = MkOther("SetError")
    /\ justCreated' = "no"

\* The second writer acts between two operations of the caller.
OtherWriterStep ==
    \E act \in WriterActs \ {"none"} :
        /\ WriterCan(store # NilObj, act)
        /\ Leaves([Interfere(World, act) EXCEPT !.calls = << >>])
        /\ last' = MkOther("Writer")
        /\ justCreated' = "no"

\* Validate(builder), called by the caller itself.
ValidateStep ==
    /\ Leaves(World)
    /\ last' = MkLast("Validate", FALSE, Validate(builder), NilObj, FALSE, << >>)
    /\ justCreated' = "no"

GetStep ==
    \E inj \in Inj :
        LET r == Get(World, inj)
        IN  /\ Leaves(r.w)
            /\ last' = MkLast("Get", FALSE, r.err, r.obj, FALSE, r.w.calls)
            /\ justCreated' = "no"

ExistsStep ==
    \E inj \in Inj :
        LET r == Exists(World, inj)
        IN  /\ Leaves(r.w)
            /\ last' = MkLast("Exists", FALSE, NoErr, NilObj, r.ok, r.w.calls)
            /\ justCreated' = "no"

CreateStep ==
    \E inj \in Inj :
        LET r == Create(World, inj)
        IN  /\ Leaves(r.w)
            /\ last' = MkLast("Create", FALSE, r.err, NilObj, FALSE, r.w.calls)
            /\ justCreated' = IF r.err # NoErr THEN "no"
                               ELSE IF r.w.calls[1].res = "ok" THEN "created"
                               ELSE "existed"

DeleteStep ==
    \E inj \in Inj :
        LET r == Delete(World, inj)
        IN  /\ Leaves(r.w)
            /\ last' = MkLast("Delete", FALSE, r.err, NilObj, FALSE, r.w.calls)
            /\ justCreated' = "no"

UpdateReturns(force, r) ==
    /\ Leaves(r.w)
    /\ last' = MkLast("Update", force, r.err, NilObj, FALSE, r.w.calls)
    /\ justCreated' = "no"

\* What the second writer can do to the store of a world.
WriterActsOn(w) == {a \in WriterActs : WriterCan(w.store # NilObj, a)}

\* One Update, from the call to the return.  The transport's answer to each of
\* its calls is drawn when the call is issued, and the second writer may act
\* right before the update, the delete and the create call.
UpdateStep ==
    \E force \in BOOLEAN, ig \in Inj :
    \E r1 \in {UpdateFetch(World, ig)} :
        IF r1.done THEN UpdateReturns(force, r1)
        ELSE
        \E wu \in WriterActsOn(r1.w), iu \in Inj :
        \E r2 \in {UpdateAttempt(Interfere(r1.w, wu), force, iu)} :
            IF r2.done THEN UpdateReturns(force, r2)
            ELSE
            \E wd \in WriterActsOn(r2.w), id \in Inj :
            \E r3 \in {UpdateForceDelete(Interfere(r2.w, wd), id)} :
                IF r3.done THEN UpdateReturns(force, r3)
                ELSE
                \E wc \in WriterActsOn(r3.w), ic \in Inj :
                \E r4 \in {UpdateForceCreate(Interfere(r3.w, wc), ic)} :
                    UpdateReturns(force, r4)

\* The caller takes the result of the step.
ReturnStep ==
    /\ ~Idle
    /\ last.op # "List"
    /\ last' = MkOther("none")
    /\ UNCHANGED << builder, store, nextRV, namespaced, justCreated, listVars, probe >>

Next ==
    \/ ReturnStep /\ UNCHANGED failures
    \/ NewBuilderStep /\ UNCHANGED failures
    \/ PullBuilderStep /\ UNCHANGED failures
    \/ MutateDefinitionStep /\ UNCHANGED failures
    \/ SetDefinitionNilStep /\ UNCHANGED failures
    \/ SetClientNilStep /\ UNCHANGED failures
    \/ SetErrorStep /\ UNCHANGED failures
    \/ OtherWriterStep /\ UNCHANGED failures
    \/ ValidateStep /\ UNCHANGED failures
    \/ GetStep /\ UNCHANGED failures
    \/ ExistsStep /\ UNCHANGED failures
    \/ CreateStep /\ UNCHANGED failures
    \/ DeleteStep /\ UNCHANGED failures
    \/ UpdateStep /\ UNCHANGED failures

Spec == Init /\ [][Next]_vars

EngineOps == {"Get", "Exists", "Create", "Update", "Delete"}

\* The step being taken is counted: an engine operation that issued a call
\* and reported a failure (an error, or false from Exists) adds to the run of
\* failures, the caller taking a result leaves the run as it is, and every
\* other step ends it.
Counted ==
    failures' =
        IF last'.op = "none" THEN failures
        ELSE IF /\ last'.op \in EngineOps
                /\ last'.calls # << >>
                /\ IF last'.op = "Exists" THEN ~last'.ok ELSE last'.err # NoErr
        THEN IF failures < MaxFailures THEN failures + 1 ELSE MaxFailures
        ELSE 0

\* The same steps, with the run of failures counted.
NextRuns ==
    \/ ReturnStep /\ Counted
    \/ NewBuilderStep /\ Counted
    \/ PullBuilderStep /\ Counted
    \/ MutateDefinitionStep /\ Counted
    \/ SetDefinitionNilStep /\ Counted
    \/ SetClientNilStep /\ Counted
    \/ SetErrorStep /\ Counted
    \/ OtherWriterStep /\ Counted
    \/ ValidateStep /\ Counted
    \/ GetStep /\ Counted
    \/ ExistsStep /\ Counted
    \/ CreateStep /\ Counted
    \/ DeleteStep /\ Counted
    \/ UpdateStep /\ Counted

SpecRuns == Init /\ [][NextRuns]_vars

(***************************************************************************)
(* Mixins                                                                  *)
(***************************************************************************)
\* The world as an engine function sees it when it is handed the base of a
\* mixin of the builder w.b: the builder itself, or a nil builder when the
\* base was never set.
Base(w) == IF w.b.base = "self" THEN w ELSE [w EXCEPT !.b = NilBuilder]

\* The world after the engine function returned: what it did to the builder
\* it was handed is seen in w.b when that builder was w.b.
Back(w, after) == IF w.b.base = "self" THEN after ELSE [after EXCEPT !.b = w.b]

\* creator.Create(): (creator.base, Create(ctx, creator.base))
EmbeddableCreatorCreate(w, inj) ==
    LET r == Create(Base(w), inj)
    IN  [w |-> Back(w, r.w), err |-> r.err, ret |-> w.b.base]

\* deleter.Delete(): Delete(ctx, deleter.base)
EmbeddableDeleterDelete(w, inj) ==
    LET r == Delete(Base(w), inj)
    IN  [w |-> Back(w, r.w), err |-> r.err, ret |-> "nil"]

\* Delete of the returning deleter, handing back no builder with an error.
EmbeddableDeleteReturnerDeleteNilOnError(w, inj) ==
    LET r == Delete(Base(w), inj)
    IN  [w |-> Back(w, r.w), err |-> r.err,
         ret |-> IF r.err = NoErr THEN w.b.base ELSE "nil"]

\* deleter.Delete(): (deleter.base, Delete(ctx, deleter.base))
EmbeddableDeleteReturnerDelete(w, inj) ==
    LET r == Delete(Base(w), inj)
    IN  [w |-> Back(w, r.w), err |-> r.err, ret |-> w.b.base]

MixinCreateStep ==
    /\ ~builder.isNil
    /\ \E inj \in Inj :
          LET r == EmbeddableCreatorCreate(World, inj)
          IN  /\ Leaves(r.w)
              /\ last' = [MkLast("Create", FALSE, r.err, NilObj, FALSE, r.w.calls)
                             EXCEPT !.via = "Creator", !.ret = r.ret]
    /\ justCreated' = "no"

MixinDeleteStep ==
    /\ ~builder.isNil
    /\ \E inj \in Inj :
          LET r == EmbeddableDeleterDelete(World, inj)
          IN  /\ Leaves(r.w)
              /\ last' = [MkLast("Delete", FALSE, r.err, NilObj, FALSE, r.w.calls)
                             EXCEPT !.via = "Deleter", !.ret = r.ret]
    /\ justCreated' = "no"

MixinDeleteReturnerStep ==
    /\ ~builder.isNil
    /\ \E inj \in Inj :
          LET r == EmbeddableDeleteReturnerDelete(World, inj)
          IN  /\ Leaves(r.w)
              /\ last' = [MkLast("Delete", FALSE, r.err, NilObj, FALSE, r.w.calls)
                             EXCEPT !.via = "DeleteReturner", !.ret = r.ret]
    /\ justCreated' = "no"

\* An Update method of a mixin returns (base, Update(ctx, base, force)).
MixinUpdateReturns(via, force, r) ==
    /\ Leaves(Back(World, r.w))
    /\ last' = [MkLast("Update", force, r.err, NilObj, FALSE, r.w.calls)
                   EXCEPT !.via = via, !.ret = builder.base]
    /\ justCreated' = "no"

\* Update(ctx, base, force) called by a mixin, call by call as in UpdateStep.
MixinUpdate(via, forces) ==
    /\ ~builder.isNil
    /\ \E force \in forces, ig \in Inj :
       \E r1 \in {UpdateFetch(Base(World), ig)} :
          IF r1.done THEN MixinUpdateReturns(via, force, r1)
          ELSE
          \E wu \in WriterActsOn(r1.w), iu \in Inj :
          \E r2 \in {UpdateAttempt(Interfere(r1.w, wu), force, iu)} :
              IF r2.done THEN MixinUpdateReturns(via, force, r2)
              ELSE
              \E wd \in WriterActsOn(r2.w), id \in Inj :
              \E r3 \in {UpdateForceDelete(Interfere(r2.w, wd), id)} :
                  IF r3.done THEN MixinUpdateReturns(via, force, r3)
                  ELSE
                  \E wc \in WriterActsOn(r3.w), ic \in Inj :
                  \E r4 \in {UpdateForceCreate(Interfere(r3.w, wc), ic)} :
                      MixinUpdateReturns(via, force, r4)

\* updater.Update(): (updater.base, Update(ctx, updater.base, false))
MixinUpdateStep == MixinUpdate("Updater", {FALSE})

\* updater.Update(force): (updater.base, Update(ctx, updater.base, force))
MixinForceUpdateStep == MixinUpdate("ForceUpdater", BOOLEAN)

\* A caller that reaches the engine through the mixins of its builder only.
NextMixins ==
    \/ ReturnStep /\ UNCHANGED failures
    \/ NewBuilderStep /\ UNCHANGED failures
    \/ PullBuilderStep /\ UNCHANGED failures
    \/ MutateDefinitionStep /\ UNCHANGED failures
    \/ SetDefinitionNilStep /\ UNCHANGED failures
    \/ SetClientNilStep /\ UNCHANGED failures
    \/ SetErrorStep /\ UNCHANGED failures
    \/ OtherWriterStep /\ UNCHANGED failures
    \/ MixinCreateStep /\ UNCHANGED failures
    \/ MixinDeleteStep /\ UNCHANGED failures
    \/ MixinDeleteReturnerStep /\ UNCHANGED failures
    \/ MixinUpdateStep /\ UNCHANGED failures
    \/ MixinForceUpdateStep /\ UNCHANGED failures

SpecMixins == Init /\ [][NextMixins]_vars

(***************************************************************************)
(* List                                                                    *)
(***************************************************************************)
\* The kind identity List gives its builders.
ResKind == "Resource"

\* The names and namespaces of the resources of the collection.
ItemNames == {"resource-1", "resource-2"}
ItemNamespaces == {ResNamespace, "other"}

\* The namespaces a caller may restrict the list call to; "" is no option.
ListOptions == {""} \cup ItemNamespaces

\* client.List(ctx, list, options...): the resources of the collection the
\* options select, in the order the store holds them.
ClientList(its, nsname, inj) ==
    IF inj = "fail"
    THEN [err |-> errListFailure, items |-> << >>,
          call |-> [verb |-> "list", key |-> << nsname, "" >>, res |-> "Failed",
                    items |-> << >>]]
    ELSE LET found == SelectSeq(its, LAMBDA o : nsname = "" \/ o.namespace = nsname)
         IN  [err |-> NoErr, items |-> found,
              call |-> [verb |-> "list", key |-> << nsname, "" >>, res |-> "ok",
                        items |-> found]]

\* A builder as List returns it: where it was allocated, its kind, its state.
MkListed(addr, b) == [addr |-> addr, gvk |-> ResKind, b |-> b]

\* List making every builder out of the item the loop ended on.
ListSharingItem(apiClient, schemeErr, nsname, its, hp, inj) ==
    LET none(e, calls) == [builders |-> << >>, err |-> e, calls |-> calls, heap |-> hp]
    IN  IF isInterfaceNil(apiClient) THEN none(NewAPIClientNil, << >>)
        ELSE IF schemeErr # NoErr THEN none(NewSchemeAttacherFailed(schemeErr), << >>)
        ELSE LET r == ClientList(its, nsname, inj)
                 n == Len(r.items)
             IN  IF r.err # NoErr
                 THEN none(NewAPICallFailed("list", r.err), << r.call >>)
                 ELSE [builders |->
                           [i \in 1..n |->
                               MkListed(hp + i, MkBuilder(r.items[n], r.items[n], TRUE,
                                                          apiClient, NoErr))],
                       err |-> NoErr, calls |-> << r.call >>, heap |-> hp + n]

\* List returning a collection that holds a nil builder when the list call
\* failed.
ListNilOnFailure(apiClient, schemeErr, nsname, its, hp, inj) ==
    LET none(e, calls) == [builders |-> << >>, err |-> e, calls |-> calls, heap |-> hp]
    IN  IF isInterfaceNil(apiClient) THEN none(NewAPIClientNil, << >>)
        ELSE IF schemeErr # NoErr THEN none(NewSchemeAttacherFailed(schemeErr), << >>)
        ELSE LET r == ClientList(its, nsname, inj)
                 n == Len(r.items)
             IN  IF r.err # NoErr
                 THEN [builders |-> << MkListed(0, NilBuilder) >>,
                       err |-> NewAPICallFailed("list", r.err), calls |-> << r.call >>,
                       heap |-> hp]
                 ELSE [builders |->
                           [i \in 1..n |->
                               MkListed(hp + i, MkBuilder(r.items[i], r.items[i], TRUE,
                                                          apiClient, NoErr))],
                       err |-> NoErr, calls |-> << r.call >>, heap |-> hp + n]

\* List(ctx, apiClient, schemeAttacher, options...): the inputs are validated,
\* one list call is issued, and each item it returns is wrapped in a builder
\* of its own.
List(apiClient, schemeErr, nsname, its, hp, inj) ==
    LET none(e, calls) == [builders |-> << >>, err |-> e, calls |-> calls, heap |-> hp]
    IN  IF isInterfaceNil(apiClient) THEN none(NewAPIClientNil, << >>)
        ELSE IF schemeErr # NoErr THEN none(NewSchemeAttacherFailed(schemeErr), << >>)
        ELSE LET r == ClientList(its, nsname, inj)
                 n == Len(r.items)
             IN  IF r.err # NoErr
                 THEN none(NewAPICallFailed("list", r.err), << r.call >>)
                 ELSE [builders |->
                           [i \in 1..n |->
                               MkListed(hp + i, MkBuilder(r.items[i], r.items[i], TRUE,
                                                          apiClient, NoErr))],
                       err |-> NoErr, calls |-> << r.call >>, heap |-> hp + n]

\* What a caller passes to List.
ListInputs ==
    {MkInputs(c, e, "", ns) : c \in {"nil", "ok"}, e \in {NoErr, errSchemeAttachment},
                              ns \in ListOptions}

\* A client of the store adds a resource to the collection or removes one.
ItemsWriterStep ==
    /\ Idle
    /\ \/ /\ Len(items) < MaxItems
          /\ \E n \in ItemNames, ns \in ItemNamespaces :
                /\ \A i \in 1..Len(items) : ObjectKeyFromObject(items[i]) # << ns, n >>
                /\ items' = Append(items, MkObj(n, ns, WriterData, 1))
       \/ \E i \in 1..Len(items) :
             items' = [j \in 1..(Len(items) - 1) |-> IF j < i THEN items[j] ELSE items[j + 1]]
    /\ UNCHANGED << builder, store, nextRV, namespaced, last, justCreated, failures,
                    heap, listed, probe >>

ListStep ==
    /\ Idle
    /\ \E in \in ListInputs, inj \in Inj :
          LET r == List(in.apiClient, in.schemeErr, in.nsname, items, heap, inj)
          IN  /\ r.heap <= MaxHeap
              /\ last' = [MkOther("List") EXCEPT !.err = r.err, !.calls = r.calls,
                                                 !.in = in]
              /\ listed' = r.builders
              /\ heap' = r.heap
    /\ UNCHANGED << builder, store, nextRV, namespaced, justCreated, failures, items,
                    probe >>

\* The caller takes what List returned.
ListReturnStep ==
    /\ last.op = "List"
    /\ last' = MkOther("none")
    /\ listed' = << >>
    /\ UNCHANGED << builder, store, nextRV, namespaced, justCreated, failures, items, heap,
                    probe >>

\* A caller that has built a builder for a namespaced resource and goes on
\* to list the collection.
InitList ==
    /\ Init
    /\ namespaced
    /\ last.in = MkInputs("ok", NoErr, ResName, ResNamespace)

NextList ==
    \/ ReturnStep /\ UNCHANGED failures
    \/ ItemsWriterStep
    \/ ListStep
    \/ ListReturnStep

SpecList == InitList /\ [][NextList]_vars

(***************************************************************************)
(* The error predicates                                                    *)
(***************************************************************************)
\* A caller holds an error of one of the kinds, or nil.
InitErrors ==
    /\ namespaced = TRUE
    /\ store = NilObj
    /\ nextRV = 1
    /\ builder = NewBuilder(MkInputs("ok", NoErr, ResName, ResNamespace))
    /\ last = MkOther("none")
    /\ justCreated = "no"
    /\ failures = 0
    /\ items = << >>
    /\ heap = 0
    /\ listed = << >>
    /\ \E c \in Cores : probe = [NoProbe EXCEPT !.core = c, !.err = c.err]

\* fmt.Errorf("...: %w", err) around the error held.
WrapStep ==
    /\ probe.err # NoErr
    /\ Len(probe.err) - Len(probe.core.err) < MaxWrap
    /\ \E msg \in WrapMessages :
          probe' = [probe EXCEPT !.err = Errorf(msg, probe.err), !.asked = FALSE,
                                 !.answers = Classify(NoErr)]
    /\ UNCHANGED << builder, store, nextRV, namespaced, last, justCreated, failures,
                    listVars >>

\* The predicates are asked about the error held.
ClassifyStep ==
    /\ ~probe.asked
    /\ probe' = [probe EXCEPT !.asked = TRUE, !.answers = Classify(probe.err)]
    /\ UNCHANGED << builder, store, nextRV, namespaced, last, justCreated, failures,
                    listVars >>

NextErrors ==
    \/ WrapStep
    \/ ClassifyStep

SpecErrors == InitErrors /\ [][NextErrors]_vars

(***************************************************************************)
(* Properties                                                              *)
(***************************************************************************)
\* The four ways a builder is invalid.
Invalid(b) ==
    \/ b.isNil
    \/ b.Definition = NilObj
    \/ b.client \in {"nil", "typednil"}
    \/ b.err # NoErr

\* A builder whose only defect is its stored error.
OnlySticky(b) ==
    /\ ~b.isNil
    /\ b.Definition # NilObj
    /\ b.client = "ok"
    /\ b.err # NoErr

\* C1: an operation (Get, Exists, Create, Update, Delete) on an invalid
\* builder (nil builder, nil Definition, nil client, or stored error) issues no
\* call to the backing store and leaves the builder, its Definition and Object
\* included, and the store as they were.
C1_InvalidBuilderIsInert ==
    (last.op \in EngineOps /\ Invalid(last.pre)) =>
        /\ last.calls = << >>
        /\ builder = last.pre
        /\ store = last.preStore

\* An Update on a builder with a stored error, a good client and a Definition
\* whose resource the store holds.
C1_Witness ==
    /\ last.op = "Update"
    /\ OnlySticky(last.pre)
    /\ last.preStore # NilObj
    /\ last.preStore.data # last.pre.Definition.data

ec == EngineCalls(last.calls)

\* The last operation was an Update with this force flag whose update call
\* the store refused with a conflict; the resource was there.
UpdateConflict(force) ==
    /\ last.op = "Update"
    /\ last.force = force
    /\ Len(ec) >= 2
    /\ ec[2].verb = "update"
    /\ ec[2].res = "Conflict"
    /\ ec[2].before # NilObj

\* C3 as stated: after a conflict on the update call, Update with force issues
\* a delete call and then a create call for the same resource, and returns no
\* error when both succeed.
C3_ForceIssuesDeleteAndCreate ==
    UpdateConflict(TRUE) =>
        /\ Len(ec) = 4
        /\ ec[3].verb = "delete" /\ ec[3].key = ec[2].key
        /\ ec[4].verb = "create" /\ ec[4].key = ec[2].key
        /\ (ec[3].res = "ok" /\ ec[4].res = "ok") => last.err = NoErr

\* C3, amended: after a conflict on the update call, Update with force issues
\* a delete call for the same resource next; it issues a create call for the
\* same resource after it, and nothing else, exactly when the delete call
\* succeeded or answered not-found; and when both calls succeed Update returns
\* no error.
C3_ForceDeletesThenCreates ==
    UpdateConflict(TRUE) =>
        /\ Len(ec) \in {3, 4}
        /\ ec[3].verb = "delete" /\ ec[3].key = ec[2].key
        /\ (Len(ec) = 4) <=> (ec[3].res \in {"ok", "NotFound"})
        /\ Len(ec) = 4 =>
              /\ ec[4].verb = "create" /\ ec[4].key = ec[2].key
              /\ (ec[3].res = "ok" /\ ec[4].res = "ok") => last.err = NoErr

\* A forced Update met a conflict, deleted the resource the second writer had
\* modified, created its own and returned no error.
C3_Witness ==
    /\ UpdateConflict(TRUE)
    /\ Len(ec) = 4
    /\ ec[3].res = "ok" /\ ec[3].before.data = WriterData
    /\ ec[4].res = "ok"
    /\ last.err = NoErr
    /\ store.data = builder.Definition.data

\* C4: after a conflict on the update call, Update without force returns an
\* error recognised as APICallFailed with verb "update", issues no delete and
\* no create call, and none of its calls changes the store: the store holds at
\* the return what the refused update call found there.
C4_NoForceLeavesStore ==
    UpdateConflict(FALSE) =>
        /\ IsAPICallFailedWithVerb(last.err, "update")
        /\ \A i \in 1..Len(ec) : ec[i].verb \notin {"delete", "create"}
        /\ \A i \in 1..Len(ec) : ec[i].after = ec[i].before
        /\ store = ec[2].before

\* An Update without force met a conflict over a resource the second writer
\* had modified after the fetch.
C4_Witness ==
    /\ UpdateConflict(FALSE)
    /\ last.err # NoErr
    /\ store.data = WriterData
    /\ store.data # builder.Definition.data

\* C5 as stated: when the update call of an Update without force fails, the
\* builder (Definition with its resource version, Object, stored error) is at
\* the return what it was at the call.
C5_FailedUpdateLeavesBuilder ==
    ( /\ last.op = "Update"
      /\ ~last.force
      /\ Len(ec) = 2
      /\ ec[2].verb = "update"
      /\ ec[2].res # "ok" ) =>
        builder = last.pre

\* The divergence behind C5: the failed Update left the fetched resource
\* version in the Definition.
C5_Witness ==
    /\ last.op = "Update"
    /\ ~last.force
    /\ Len(ec) = 2
    /\ ec[2].verb = "update"
    /\ ec[2].res = "Failed"
    /\ builder.Definition.rv # last.pre.Definition.rv
    /\ builder.Definition.rv = ec[1].after.rv

\* C6 as stated: a Get right after a Create that returned no error, with no
\* other writer in between, returns a value equal to the Definition.
C6_GetAfterCreateIsDefinition ==
    ( /\ last.op = "Get"
      /\ last.afterCreate # "no"
      /\ last.err = NoErr ) =>
        last.obj = builder.Definition

\* C6, amended: when the create call of the Create succeeded, a Get right
\* after it, with no other writer in between and its get call reaching the
\* store, returns no error and a value equal to the Definition, the resource
\* version the store assigned included.
C6_GetAfterCreatedIsDefinition ==
    ( /\ last.op = "Get"
      /\ last.afterCreate = "created"
      /\ ec[1].res # "Failed" ) =>
        /\ last.err = NoErr
        /\ last.obj = builder.Definition
        /\ last.obj.rv # 0

\* A Get right after a Create whose create call succeeded returned the
\* resource.
C6_Witness ==
    /\ last.op = "Get"
    /\ last.afterCreate = "created"
    /\ last.err = NoErr
    /\ last.obj # NilObj

\* C7: a Delete on a valid builder while the store does not hold the resource,
\* its delete call reaching the store, returns no error and leaves the Object
\* absent; and every Delete that returned no error leaves the store without
\* the resource, so that the Deletes that follow it find it absent and return
\* no error either.
C7_DeleteIsIdempotent ==
    /\ ( /\ last.op = "Delete"
         /\ ~Invalid(last.pre)
         /\ last.preStore = NilObj
         /\ ec[1].res # "Failed" ) =>
           /\ last.err = NoErr
           /\ builder.Object = NilObj
    /\ (last.op = "Delete" /\ last.err = NoErr) => store = NilObj

\* A Delete found no resource in the store while the builder still had the
\* Object of an earlier operation.
C7_Witness ==
    /\ last.op = "Delete"
    /\ ~Invalid(last.pre)
    /\ last.preStore = NilObj
    /\ last.pre.Object # NilObj
    /\ ec[1].res = "NotFound"
    /\ last.err = NoErr

\* The delete call of the last operation, a Delete, failed with something
\* other than not-found.
DeleteCallFailed ==
    /\ last.op = "Delete"
    /\ Len(ec) = 1
    /\ ec[1].res \notin {"ok", "NotFound"}

\* C8: when its delete call fails with anything but not-found, Delete returns
\* an error recognised as APICallFailed with verb "delete" and the builder's
\* Object is what it was before the call.
C8_FailedDeleteKeepsObject ==
    DeleteCallFailed =>
        /\ IsAPICallFailedWithVerb(last.err, "delete")
        /\ builder.Object = last.pre.Object
        /\ builder.objIsDef = last.pre.objIsDef

\* A Delete failed while the builder had an Object and the store the resource.
C8_Witness ==
    /\ DeleteCallFailed
    /\ last.pre.Object # NilObj
    /\ last.preStore # NilObj

\* C9 as stated: when the store answers the create call with already-exists,
\* Create returns no error, the builder's Object is what it was before the
\* call, and the stored resource is unchanged.
C9_ExistingLeavesObject ==
    ( /\ last.op = "Create"
      /\ Len(ec) = 1
      /\ ec[1].res = "AlreadyExists" ) =>
        /\ last.err = NoErr
        /\ builder.Object = last.pre.Object
        /\ store = last.preStore

\* The divergence behind C9: the Create that met an existing resource cleared
\* the resource version of the Object, which is the Definition itself since
\* the Create or Update that set it.
C9_Witness ==
    /\ last.op = "Create"
    /\ Len(ec) = 1
    /\ ec[1].res = "AlreadyExists"
    /\ last.err = NoErr
    /\ last.pre.objIsDef
    /\ last.pre.Object.rv # 0
    /\ builder.Object.rv = 0

C11_ExistsAfterCreate ==
    ( /\ last.op = "Exists"
      /\ last.afterCreate # "no"
      /\ ec[1].res # "Failed" ) =>
        /\ last.ok
        /\ builder.Object # NilObj
        /\ builder.Object.name = builder.Definition.name
        /\ builder.Object.namespace = builder.Definition.namespace

\* An Exists returned true right after a Create had met an existing resource
\* and left the builder without Object.
C11_Witness ==
    /\ last.op = "Exists"
    /\ last.afterCreate = "existed"
    /\ last.pre.Object = NilObj
    /\ last.ok
    /\ builder.Object = store

\* C12: whenever Exists returns false, the builder (Definition, Object, stored
\* error) is what it was before the call.
C12_ExistsFalseLeavesBuilder ==
    (last.op = "Exists" /\ ~last.ok) => builder = last.pre

\* An Exists on a valid builder that has an Object found the resource gone.
C12_Witness ==
    /\ last.op = "Exists"
    /\ ~last.ok
    /\ ~Invalid(last.pre)
    /\ last.pre.Object # NilObj
    /\ Len(ec) = 1
    /\ ec[1].res = "NotFound"

\* C13: Get leaves the builder, Object and Definition included, as it was
\* before the call, whether the fetch succeeded or failed.
C13_GetLeavesBuilder ==
    last.op = "Get" => builder = last.pre

\* A Get returned a resource that differs from the builder's Object and from
\* its Definition.
C13_Witness ==
    /\ last.op = "Get"
    /\ last.err = NoErr
    /\ last.obj # last.pre.Object
    /\ last.obj # last.pre.Definition
    /\ last.pre.Object # NilObj

\* C14: Validate returns the error of the first check that fails, in the
\* order builder non-nil, Definition non-nil, client non-nil, no stored error
\* (the stored error comes back wrapped), and returns nil exactly when the
\* four checks hold.
C14_ValidateOrder ==
    last.op = "Validate" =>
        /\ last.pre.isNil => last.err = NewBuilderNil
        /\ (~last.pre.isNil /\ last.pre.Definition = NilObj) =>
              last.err = NewBuilderDefinitionNil
        /\ ( /\ ~last.pre.isNil
             /\ last.pre.Definition # NilObj
             /\ last.pre.client \in {"nil", "typednil"} ) =>
              last.err = NewAPIClientNil
        /\ OnlySticky(last.pre) =>
              /\ ErrorsIs(last.err, last.pre.err)
              /\ ~IsBuilderNil(last.err)
              /\ ~IsBuilderDefinitionNil(last.err)
        /\ (last.err = NoErr) <=> ~Invalid(last.pre)

\* Validate ran on a builder that fails three checks at once: no Definition,
\* a nil client and a stored error that is not the nil-client error.
C14_Witness ==
    /\ last.op = "Validate"
    /\ ~last.pre.isNil
    /\ last.pre.Definition = NilObj
    /\ last.pre.client = "nil"
    /\ last.pre.err # NoErr
    /\ ~IsAPIClientNil(last.pre.err)
    /\ IsBuilderDefinitionNil(last.err)

\* The inputs with which a constructor or a Pull of the resource type's scope
\* fails one of its checks.
FailingInputs(in) ==
    \/ in.apiClient \in {"nil", "typednil"}
    \/ in.schemeErr # NoErr
    \/ in.name = ""
    \/ namespaced /\ in.nsname = ""

EmptyNamespaceOnly ==
    /\ last.op = "New"
    /\ namespaced
    /\ last.in.apiClient = "ok"
    /\ last.in.schemeErr = NoErr
    /\ last.in.name # ""
    /\ last.in.nsname = ""

\* C17: a namespaced builder constructed with a name and an empty namespace
\* (good client and scheme attacher) stores BuilderFieldEmpty namespace and
\* has a Definition, whose name is the name given.
C17_EmptyNamespaceKeepsDefinition ==
    EmptyNamespaceOnly =>
        /\ IsBuilderNamespaceEmpty(builder.err)
        /\ builder.Definition # NilObj
        /\ builder.Definition.name = last.in.name

\* Such a builder was constructed.
C17_Witness ==
    /\ EmptyNamespaceOnly
    /\ ~builder.isNil
    /\ builder.err # NoErr
    /\ builder.Definition.name = ResName

C19_PullSuccess ==
    (last.op = "Pull" /\ last.err = NoErr) =>
        /\ ~builder.isNil
        /\ builder.err = NoErr
        /\ builder.Definition = last.preStore
        /\ builder.Object = last.preStore
        /\ builder.Definition.name = last.in.name
        /\ builder.Definition.namespace = (IF namespaced THEN last.in.nsname ELSE "")

\* A Pull fetched a resource the second writer had written, its resource
\* version included.
C19_Witness ==
    /\ last.op = "Pull"
    /\ last.err = NoErr
    /\ builder.Object.data = WriterData
    /\ builder.Object.rv > 1

\* The last operation was a forced Update whose update call failed and whose
\* delete call failed with something other than not-found.
ForcedDeleteFailed ==
    /\ last.op = "Update"
    /\ last.force
    /\ Len(ec) >= 3
    /\ ec[2].verb = "update"
    /\ ec[2].res # "ok"
    /\ ec[3].verb = "delete"
    /\ ec[3].res \notin {"ok", "NotFound"}

\* C20: when the update call of a forced Update fails and the Delete after it
\* fails, Update returns an error with the prefix "failed to force update"
\* wrapping the failure of the Delete, which is recognised as APICallFailed
\* with verb "delete", and issues no create call.
C20_ForcedDeleteFailure ==
    ForcedDeleteFailed =>
        /\ Len(ec) = 3
        /\ last.err # NoErr
        /\ Head(last.err) = Layer("Wrap", "failed to force update")
        /\ IsAPICallFailedWithVerb(last.err, "delete")
        /\ ErrorsIs(last.err, errDeleteFailure)

\* A forced Update whose update call failed in transport then failed to
\* delete the resource, which the store still holds.
C20_Witness ==
    /\ ForcedDeleteFailed
    /\ ec[2].res = "Failed"
    /\ store # NilObj
    /\ last.err # NoErr

\* The last operation was a forced Update whose update call failed, whose
\* Delete succeeded (the delete call succeeded or answered not-found) and
\* whose create call failed.
ForcedCreateFailed ==
    /\ last.op = "Update"
    /\ last.force
    /\ Len(ec) = 4
    /\ ec[2].verb = "update"
    /\ ec[2].res # "ok"
    /\ ec[3].verb = "delete"
    /\ ec[3].res \in {"ok", "NotFound"}
    /\ ec[4].verb = "create"
    /\ ec[4].res \notin {"ok", "AlreadyExists"}

\* C21: when the update call of a forced Update fails, the Delete succeeds
\* and the Create fails, Update returns an error with the prefix "failed to
\* force update" wrapping the failure of the Create, which is recognised as
\* APICallFailed with verb "create" and not with verb "delete".
C21_ForcedCreateFailure ==
    ForcedCreateFailed =>
        /\ last.err # NoErr
        /\ Head(last.err) = Layer("Wrap", "failed to force update")
        /\ IsAPICallFailedWithVerb(last.err, "create")
        /\ ~IsAPICallFailedWithVerb(last.err, "delete")
        /\ ErrorsIs(last.err, errCreateFailure)

\* A forced Update deleted the resource and failed to create it again: the
\* store is left without it.
C21_Witness ==
    /\ ForcedCreateFailed
    /\ ec[3].res = "ok"
    /\ last.preStore # NilObj
    /\ store = NilObj
    /\ last.err # NoErr

\* C22: when the fetch that opens an Update fails, not-found included, Update
\* returns an error and issues no update, delete or create call, with or
\* without force; and an Update called while the store does not hold the
\* resource creates none.
C22_FailedFetchStopsUpdate ==
    /\ ( /\ last.op = "Update"
         /\ Len(ec) >= 1
         /\ ec[1].res # "ok" ) =>
           /\ ec[1].verb = "get"
           /\ Len(ec) = 1
           /\ last.err # NoErr
           /\ store = last.preStore
    /\ (last.op = "Update" /\ last.preStore = NilObj) =>
           /\ store = NilObj
           /\ \A i \in 1..Len(ec) : ec[i].verb # "create"

\* A forced Update found no resource, returned an error and left the store
\* empty.
C22_Witness ==
    /\ last.op = "Update"
    /\ last.force
    /\ Len(ec) = 1
    /\ ec[1].res = "NotFound"
    /\ last.err # NoErr
    /\ store = NilObj

\* The update call of the last operation, an Update, succeeded.
UpdateCallSucceeded ==
    /\ last.op = "Update"
    /\ Len(ec) = 2
    /\ ec[2].verb = "update"
    /\ ec[2].res = "ok"

\* C23: when the update call of an Update succeeds, Update returns nil, the
\* builder's Object is its Definition, and the store holds the resource with
\* the content the Definition had at the call.
C23_UpdateSuccess ==
    UpdateCallSucceeded =>
        /\ last.err = NoErr
        /\ builder.objIsDef
        /\ builder.Object = builder.Definition
        /\ store # NilObj
        /\ store.data = last.pre.Definition.data
        /\ store.data = builder.Definition.data
        /\ ObjectKeyFromObject(store) = ObjectKeyFromObject(builder.Definition)

\* An Update replaced the content a second writer had stored by the content
\* of the Definition, on a builder whose Object was not its Definition.
C23_Witness ==
    /\ UpdateCallSucceeded
    /\ last.preStore.data = WriterData
    /\ last.pre.Definition.data \in CallerData
    /\ ~last.pre.objIsDef
    /\ store.data \in CallerData

\* C24: every create call the engine issues, from Create or from the Create
\* of a forced Update, carries an empty resource version, whatever resource
\* version the Definition held before.
C24_CreateCarriesNoVersion ==
    \A i \in 1..Len(ec) : ec[i].verb = "create" => ec[i].rvSent = 0

\* The create call of a forced Update carried no resource version although
\* the fetch had copied one onto the Definition.
C24_Witness ==
    /\ last.op = "Update"
    /\ Len(ec) = 4
    /\ ec[4].verb = "create"
    /\ ec[2].rvSent # 0
    /\ ec[4].rvSent = 0

\* How many calls with this verb the last operation issued.
Count(verb) == Len(SelectSeq(ec, LAMBDA c : c.verb = verb))

\* The calls an operation may issue, each at most once.
CallBudget ==
    /\ last.op \in {"Get", "Exists"} =>
           Len(ec) <= 1 /\ Len(ec) = Count("get")
    /\ last.op = "Create" =>
           Len(ec) <= 1 /\ Len(ec) = Count("create")
    /\ last.op = "Delete" =>
           Len(ec) <= 1 /\ Len(ec) = Count("delete")
    /\ last.op = "Update" =>
           /\ Count("get") <= 1
           /\ Count("update") <= 1
           /\ Count("delete") <= 1
           /\ Count("create") <= 1
           /\ Len(ec) = Count("get") + Count("update") + Count("delete") + Count("create")
           /\ ~last.force => Count("delete") = 0 /\ Count("create") = 0

\* The error the client returned from a call of the log.
CallError(c) ==
    IF c.res = "ok" THEN NoErr
    ELSE IF c.res # "Failed" THEN StatusErr(c.res)
    ELSE IF c.verb = "get" THEN errGetFailure
    ELSE IF c.verb = "create" THEN errCreateFailure
    ELSE IF c.verb = "update" THEN errUpdateFailure
    ELSE errDeleteFailure

\* The error the last operation returned is the failure of this call: it is
\* APICallFailed with the call's verb around the error the client returned.
Surfaces(c) ==
    /\ last.err # NoErr
    /\ IsAPICallFailedWithVerb(last.err, c.verb)
    /\ ErrorsIs(last.err, CallError(c))

\* The calls of the last operation that failed.
FailedCalls == {i \in 1..Len(ec) : ec[i].res # "ok"}

\* The failures an operation does not return: already-exists from a create
\* call, not-found from a delete call, and the update call of a forced Update.
Tolerated(i) ==
    \/ ec[i].verb = "create" /\ ec[i].res = "AlreadyExists"
    \/ ec[i].verb = "delete" /\ ec[i].res = "NotFound"
    \/ ec[i].verb = "update" /\ last.op = "Update" /\ last.force

\* C25 as stated: no operation issues a call twice, delete and create calls
\* come from Update only with force, and the error of the first call that
\* failed is returned by the operation that issued it.
C25_FirstFailureSurfaced ==
    /\ CallBudget
    /\ ( /\ last.op \in {"Get", "Create", "Delete", "Update"}
         /\ FailedCalls # {} ) =>
           Surfaces(ec[CHOOSE i \in FailedCalls : \A j \in FailedCalls : i <= j])

\* C25: no operation issues a call twice, and delete and create calls come
\* from Update only with force.  Get, Create, Delete and Update return nil
\* when no call failed other than a create call answering already-exists, a
\* delete call answering not-found, or the update call of a forced Update;
\* any other failed call is the last call of the operation and its error is
\* the one returned.  Exists answers true exactly when its get call
\* succeeded.
C25_NoRetryLastFailureSurfaced ==
    /\ CallBudget
    /\ ( /\ last.op \in {"Get", "Create", "Delete", "Update"}
         /\ Len(ec) >= 1 ) =>
           LET bad == {i \in FailedCalls : ~Tolerated(i)}
           IN  /\ bad = {} => last.err = NoErr
               /\ bad # {} => bad = {Len(ec)} /\ Surfaces(ec[Len(ec)])
    /\ (last.op = "Exists" /\ Len(ec) >= 1) => (last.ok <=> ec[1].res = "ok")

\* A forced Update whose update call failed in transport went on to delete
\* and create, and returned the error of the create call, not that of the
\* update call.
C25_Witness ==
    /\ last.op = "Update"
    /\ last.force
    /\ Len(ec) = 4
    /\ ec[2].res = "Failed"
    /\ ec[4].res = "Failed"
    /\ Surfaces(ec[4])
    /\ ~Surfaces(ec[2])

\* The verb of the call an operation opens with.
FirstVerb(op) ==
    IF op = "Create" THEN "create" ELSE IF op = "Delete" THEN "delete" ELSE "get"

\* The last operation did what it was called for.
Succeeded == IF last.op = "Exists" THEN last.ok ELSE last.err = NoErr

\* C26: an engine operation on a valid builder, whatever happened to the
\* builder before and however the operation ends, leaves the builder valid,
\* with no stored error and the same client; it issues its call, and it
\* succeeds when every call it issues succeeds.
C26_NoTerminalState ==
    (last.op \in EngineOps /\ Validate(last.pre) = NoErr) =>
        /\ Validate(builder) = NoErr
        /\ builder.err = NoErr
        /\ builder.client = last.pre.client
        /\ Len(ec) >= 1
        /\ ec[1].verb = FirstVerb(last.op)
        /\ (\A i \in 1..Len(ec) : ec[i].res = "ok") => Succeeded

\* An operation succeeded on a builder whose operations right before it had
\* all failed at the store, as many of them as are counted.
C26_Witness ==
    /\ last.op \in EngineOps
    /\ last.afterFailures = MaxFailures
    /\ MaxFailures >= 1
    /\ Validate(last.pre) = NoErr
    /\ \A i \in 1..Len(ec) : ec[i].res = "ok"
    /\ Succeeded
    /\ failures = 0

\* The list call of the pending List succeeded.
ListCallSucceeded ==
    /\ last.op = "List"
    /\ Len(last.calls) = 1
    /\ last.calls[1].res = "ok"

\* C27: when the list call succeeds with n items, List returns no error and
\* exactly n builders, the i-th made of the i-th item: allocated by this run
\* of List at an address of its own, not nil, with the client List was given,
\* the kind identity, no error, and its Definition and its Object both that
\* item.
C27_ListWrapsEachItem ==
    ListCallSucceeded =>
        LET got == last.calls[1].items
        IN  /\ last.err = NoErr
            /\ Len(listed) = Len(got)
            /\ \A i \in 1..Len(listed) :
                 /\ ~listed[i].b.isNil
                 /\ listed[i].b.client = last.in.apiClient
                 /\ ~isInterfaceNil(listed[i].b.client)
                 /\ listed[i].gvk = ResKind
                 /\ listed[i].b.err = NoErr
                 /\ listed[i].b.Definition = got[i]
                 /\ listed[i].b.Object = got[i]
                 /\ listed[i].addr > heap - Len(listed)
                 /\ listed[i].addr <= heap
                 /\ \A j \in 1..Len(listed) : listed[j].addr = listed[i].addr => j = i

\* List, restricted to a namespace, returned two builders for two different
\* resources out of a collection of three, after an earlier List had
\* allocated builders.
C27_Witness ==
    /\ ListCallSucceeded
    /\ Len(items) = 3
    /\ Len(listed) = 2
    /\ listed[1].b.Definition # listed[2].b.Definition
    /\ listed[1].addr > 1
    /\ last.in.nsname # ""

\* C28: whenever List returns an error, the collection it returns is empty;
\* the error is ClientNil for a nil client, SchemeAttachFailed for a failing
\* scheme attacher and APICallFailed with verb "list" for a failed list call.
C28_ListErrorReturnsNothing ==
    (last.op = "List" /\ last.err # NoErr) =>
        /\ listed = << >>
        /\ \/ IsAPIClientNil(last.err) /\ isInterfaceNil(last.in.apiClient)
           \/ IsSchemeAttacherFailed(last.err) /\ last.in.schemeErr # NoErr
           \/ /\ IsAPICallFailedWithVerb(last.err, "list")
              /\ Len(last.calls) = 1
              /\ last.calls[1].res # "ok"

\* The list call failed while the collection held resources: List returned
\* APICallFailed with verb "list" and no builder.
C28_Witness ==
    /\ last.op = "List"
    /\ Len(items) >= 2
    /\ Len(last.calls) = 1
    /\ last.calls[1].res = "Failed"
    /\ IsAPICallFailedWithVerb(last.err, "list")
    /\ ErrorsIs(last.err, errListFailure)
    /\ listed = << >>

\* C29: asked about an error of one of the kinds, wrapped in any number of
\* fmt.Errorf layers, each predicate answers true exactly when the error is
\* of the predicate's own kind and, where it has one, field or verb; asked
\* about nil, every predicate answers false.
C29_PredicatesTellKinds ==
    probe.asked =>
        LET k == probe.core.kind
            t == probe.core.tag
            a == probe.answers
        IN  /\ a.clientNil <=> k = "APIClientNil"
            /\ a.schemeFailed <=> k = "SchemeAttacherFailed"
            /\ a.nameEmpty <=> (k = "BuilderFieldEmpty" /\ t = "name")
            /\ a.namespaceEmpty <=> (k = "BuilderFieldEmpty" /\ t = "namespace")
            /\ a.builderNil <=> k = "BuilderNil"
            /\ a.definitionNil <=> k = "BuilderDefinitionNil"
            /\ a.callFailed <=> k = "APICallFailed"
            /\ \A v \in Verbs : a.withVerb[v] <=> (k = "APICallFailed" /\ t = v)

\* A failed update call, wrapped as many times as the bound allows, was
\* recognised with verb "update" and with no other verb.
C29_Witness ==
    /\ probe.asked
    /\ probe.core.kind = "APICallFailed"
    /\ probe.core.tag = "update"
    /\ Len(probe.err) = Len(probe.core.err) + MaxWrap
    /\ MaxWrap >= 2
    /\ probe.answers.withVerb["update"]
    /\ ~probe.answers.withVerb["get"]

\* Whether the transport failed the call of the last operation with this
\* verb, read off the call log.
InjOf(verb) ==
    IF \E i \in 1..Len(ec) : ec[i].verb = verb /\ ec[i].res = "Failed"
    THEN "fail" ELSE "none"

\* What the second writer did right before the call with this verb, read off
\* the call log.
WriterBefore(verb) ==
    LET log == last.calls
        at == {i \in 2..Len(log) : log[i].verb = verb /\ log[i - 1].verb = "writer"}
    IN  IF at = {} THEN "none" ELSE log[(CHOOSE i \in at : TRUE) - 1].res

\* Update(ctx, builder, force) from the call to the return, in a world where
\* the transport and the second writer do what the call log of the last
\* operation says they did.
UpdateReplayed(w, force) ==
    LET r1 == UpdateFetch(w, InjOf("get"))
        r2 == UpdateAttempt(Interfere(r1.w, WriterBefore("update")), force, InjOf("update"))
        r3 == UpdateForceDelete(Interfere(r2.w, WriterBefore("delete")), InjOf("delete"))
        r4 == UpdateForceCreate(Interfere(r3.w, WriterBefore("create")), InjOf("create"))
    IN  IF r1.done THEN r1 ELSE IF r2.done THEN r2 ELSE IF r3.done THEN r3 ELSE r4

\* The engine function that corresponds to the mixin method just called,
\* applied to the builder itself as it was before the call, in the same world.
EngineOnBuilder ==
    LET w == MkWorld(last.pre, last.preStore, last.preRV)
    IN  IF last.op = "Create" THEN Create(w, InjOf("create"))
        ELSE IF last.op = "Delete" THEN Delete(w, InjOf("delete"))
        ELSE UpdateReplayed(w, last.force)

C31_UpdateLeavesObject ==
    (last.op = "Update" /\ last.err = NoErr) =>
        /\ builder.Object # NilObj
        /\ builder.Object.name = builder.Definition.name
        /\ builder.Object.namespace = builder.Definition.namespace
        /\ builder.Object.data = builder.Definition.data

\* A forced Update deleted the resource, the second writer created it again
\* before the create call, the create call was answered already-exists, and
\* Update returned nil with no Object.
C31_Witness ==
    /\ last.op = "Update"
    /\ last.force
    /\ last.err = NoErr
    /\ Len(ec) = 4
    /\ ec[3].verb = "delete"
    /\ ec[4].verb = "create"
    /\ ec[4].res = "AlreadyExists"
    /\ \E i \in 1..Len(last.calls) : last.calls[i].verb = "writer" /\ last.calls[i].res = "create"
    /\ builder.Object = NilObj
    /\ store # NilObj

\* C32: whenever Update with force returns nil, the store holds a resource
\* with the name and namespace of the builder whose content is that of the
\* Definition, whatever the second writer did between the calls.
C32_ForcedUpdateConverges ==
    (last.op = "Update" /\ last.force /\ last.err = NoErr) =>
        /\ Holds(store, ObjectKeyFromObject(builder.Definition))
        /\ store.data = builder.Definition.data

\* A forced Update returned nil after its create call was answered
\* already-exists, and the store holds the second writer's content, not the
\* Definition's.
C32_Witness ==
    /\ last.op = "Update"
    /\ last.force
    /\ last.err = NoErr
    /\ Len(ec) = 4
    /\ ec[4].res = "AlreadyExists"
    /\ Holds(store, ObjectKeyFromObject(builder.Definition))
    /\ store.data = WriterData
    /\ builder.Definition.data # WriterData

\* C33: the update call of an Update carries the resource version of the
\* object that the get call of the same Update returned, whatever resource
\* version the Definition and the Object held before the call.
C33_UpdateSendsFetchedVersion ==
    (last.op = "Update" /\ Len(ec) >= 2) =>
        /\ ec[1].verb = "get"
        /\ ec[1].res = "ok"
        /\ ec[2].verb = "update"
        /\ ec[2].rvSent = ec[1].before.rv

\* An Update on a builder whose Definition and Object held an older resource
\* version than the one fetched sent the fetched one.
C33_Witness ==
    /\ last.op = "Update"
    /\ Len(ec) >= 2
    /\ last.pre.Object # NilObj
    /\ last.pre.Definition.rv # 0
    /\ last.pre.Definition.rv # ec[1].before.rv
    /\ last.pre.Object.rv # ec[1].before.rv
    /\ ec[2].rvSent = ec[1].before.rv
    /\ ec[2].res = "ok"

\* The last operation was an Update without force by a valid builder on a
\* resource that existed when it was called.
UnforcedUpdateOfExisting ==
    /\ last.op = "Update"
    /\ ~last.force
    /\ Validate(last.pre) = NoErr
    /\ Holds(last.preStore, ObjectKeyFromObject(last.pre.Definition))

\* The second writer wrote to the store during the last operation; in an
\* Update without force that is between the get and the update call.
WroteInWindow == \E i \in 1..Len(last.calls) : last.calls[i].verb = "writer"

\* The last operation returned the conflict of its update call.
FailedWithConflict == last.err = NewAPICallFailed("update", StatusErr("Conflict"))

\* A call of the last operation failed in transport.
TransportFailed == \E i \in 1..Len(ec) : ec[i].res = "Failed"

ForcedUpdateFailedOnExisting ==
    /\ last.op = "Update"
    /\ last.force
    /\ last.err # NoErr
    /\ last.preStore # NilObj

\* What the second writer did during the last operation includes this act.
WriterDid(act) ==
    \E i \in 1..Len(last.calls) : last.calls[i].verb = "writer" /\ last.calls[i].res = act

\* C35 as stated: when a forced Update returns an error, the resource the
\* store held before the call is still there.
C35_FailedForcedUpdateKeepsResource ==
    ForcedUpdateFailedOnExisting => store # NilObj

\* C35: when a forced Update returns an error before its create step (from
\* validation, the fetch or the Delete), the resource the store held before the
\* call is still there unless the second writer deleted it; when it returns
\* the error of the create step after its delete call succeeded, the resource
\* is gone unless the second writer created it again.
C35_FailedForcedUpdateBeforeCreateKeepsResource ==
    ForcedUpdateFailedOnExisting =>
        /\ (~ForcedCreateFailed /\ ~WriterDid("delete")) => store # NilObj
        /\ (ForcedCreateFailed /\ ec[3].res = "ok" /\ ~WriterDid("create")) => store = NilObj

\* A forced Update returned the error of its delete call and the resource is
\* still in the store.
C35_Witness ==
    /\ ForcedUpdateFailedOnExisting
    /\ Len(ec) = 3
    /\ ec[3].verb = "delete"
    /\ ec[3].res = "Failed"
    /\ ~WriterDid("delete")
    /\ store # NilObj

\* C36: the Object is a snapshot of the state last observed: it changes only
\* in a step of an engine operation or of a constructor, so not when the
\* caller changes the Definition after a Create, Update or Pull that succeeded.
C36_ObjectIsSnapshot ==
    [][builder'.Object # builder.Object => last'.op \in EngineOps \cup {"New", "Pull"}]_vars

\* The caller changed its Definition after an operation that had set the
\* Object, and the Object now has the resource version the store assigned with
\* content the store does not hold.
C36_Witness ==
    /\ last.op = "Mutate"
    /\ builder.objIsDef
    /\ builder.Object # NilObj
    /\ builder.Object = builder.Definition
    /\ store # NilObj
    /\ builder.Object.rv = store.rv
    /\ builder.Object.data # store.data

\* C37: a client that is a typed nil is treated as an untyped nil is.  A
\* constructor stores APIClientNil, whatever the scheme attacher would return,
\* and builds what it builds for nil; Pull returns APIClientNil and no builder
\* and issues no call; Validate returns what it returns for nil, which is
\* APIClientNil when the builder has a Definition.
C37_TypedNilClientIsNil ==
    /\ (last.op = "New" /\ last.in.apiClient = "typednil") =>
          /\ builder.err = NewAPIClientNil
          /\ builder = [NewBuilder([last.in EXCEPT !.apiClient = "nil"])
                          EXCEPT !.client = "typednil"]
    /\ (last.op = "Pull" /\ last.in.apiClient = "typednil") =>
          /\ last.err = NewAPIClientNil
          /\ builder.isNil
          /\ last.calls = << >>
          /\ store = last.preStore
    /\ (last.op = "Validate" /\ ~last.pre.isNil /\ last.pre.client = "typednil") =>
          /\ last.err = Validate([last.pre EXCEPT !.client = "nil"])
          /\ last.pre.Definition # NilObj => last.err = NewAPIClientNil
          /\ last.calls = << >>

\* Pull was given a typed nil client and a scheme attacher that would fail,
\* while the store held the resource, and returned APIClientNil.
C37_Witness ==
    /\ last.op = "Pull"
    /\ last.in.apiClient = "typednil"
    /\ last.in.schemeErr # NoErr
    /\ last.in.name # ""
    /\ last.preStore # NilObj
    /\ last.err = NewAPIClientNil
    /\ builder.isNil

====
